---- MODULE Spec2Model ----
(***************************************************************************)
(* Model of onedrive_pdf_downloader/core/export.py: export_pdf, its two    *)
(* traversal strategies (export_pdf_slide_mode, export_pdf_standard_mode)  *)
(* and save_pdf_results.  The browser and the file system are the          *)
(* environment: every lookup, script and file operation the code guards    *)
(* with try/except succeeds or fails nondeterministically.                  *)
(***************************************************************************)
EXTENDS Integers, Sequences, FiniteSets

\* Largest total_of_pages explored (0 is included: export_pdf does not
\* validate the caller-supplied page count).
MaxPages == 3
\* Largest canvas width and height explored (6 x 5 is the ratio 1.2).
MaxWidth == 6
MaxHeight == 5

VARIABLES
    args,            \* [keep_raw_imgs, keep_imgs, create_collage]
    total_of_pages,  \* the caller-supplied page count
    canvasWidth,     \* canvas.size['width']
    canvasHeight,    \* canvas.size['height']
    pc,              \* position in export_pdf
    mode,            \* "none" | "slide" | "standard" (is_slide_mode)
    detectFound,     \* whether detect_slide_mode could read the canvas
    toolbarHidden,   \* hide_toolbar succeeded
    canvas_height,   \* position['canvasHeight'] (slide mode), 0 = unset
    page_number,     \* loop variable of the traversal
    files_list,      \* cropped frames, by page index, in capture order
    rawFiles,        \* page indices i with raw_i.png in temp_dir
    tempDir,         \* "none" | "live" | "removed"
    position,        \* get_canvas_position: "unset" | "none" | "got"
    scrollTop,       \* container.scrollTop of the scrollable ancestor
    scrollErrors,    \* scroll scripts that raised (logged as warnings)
    scrolls,         \* pixel amounts passed to scroll_by_exact_amount
    clicks,          \* number of next-page activations attempted
    page_count,      \* page_count argument of save_pdf_results
    saveCalled,      \* save_pdf_results was entered
    primary,         \* destination file: "absent" | "opened" | "written"
    primaryPages,    \* frames encoded in the destination file
    rawDir,          \* <filename>_raw_images exists
    rawKept,         \* page indices copied into <filename>_raw_images
    imgDir,          \* <filename>_images exists
    imgKept,         \* page indices copied into <filename>_images
    collage,         \* <filename>_collage.png exists
    canvasLostAt,    \* page at which the canvas lookup failed, 0 = never
    nextFailedAt,    \* page after which the next control failed, 0 = never
    ioFailure,       \* step of save_pdf_results that raised IOError
    result,          \* "none" | "true" | "false" | "raised"
    image,           \* the file at image_path when crop_image is called
    saved,           \* the file at image_path when crop_image returns
    images,          \* sizes <<w, h>> of the images given to create_collage
    collageOut,      \* [status, size, pastes] of create_collage
    framePc          \* position in the image utilities

vars == <<args, total_of_pages, canvasWidth, canvasHeight, pc, mode,
          detectFound, toolbarHidden, canvas_height, page_number, files_list,
          rawFiles, tempDir, position, scrollTop, scrollErrors, scrolls, clicks, page_count, saveCalled, primary,
          primaryPages, rawDir, rawKept, imgDir, imgKept, collage,
          canvasLostAt, nextFailedAt, ioFailure, result, image, saved,
          images, collageOut, framePc>>

scrollVars == <<scrollTop, scrollErrors>>
browserVars == <<toolbarHidden, canvas_height, position, scrollVars, scrolls,
                 clicks>>
loopVars == <<page_number, files_list, rawFiles>>
inputVars == <<args, total_of_pages, canvasWidth, canvasHeight>>
saveVars == <<page_count, saveCalled, primary, primaryPages, rawDir, rawKept,
              imgDir, imgKept, collage, ioFailure>>
historyVars == <<canvasLostAt, nextFailedAt>>
imageVars == <<image, saved, images, collageOut, framePc>>
exportVars == <<inputVars, pc, mode, detectFound, browserVars, loopVars,
                tempDir, saveVars, historyVars, result>>

----------------------------------------------------------------------------
\* Pure pieces of the code

\* aspect_ratio = width / height if height > 0 else 0, as a fraction
AspectRatio(width, height) ==
    IF height > 0 THEN <<width, height>> ELSE <<0, 1>>

\* aspect_ratio >= 1.2 in place of aspect_ratio > 1.2
detect_slide_mode_inclusive(found, width, height) ==
    /\ found
    /\ AspectRatio(width, height)[1] * 10 >= 12 * AspectRatio(width, height)[2]

\* is_slide = aspect_ratio > 1.2; any exception (canvas not found) -> False
detect_slide_mode(found, width, height) ==
    /\ found
    /\ AspectRatio(width, height)[1] * 10 > 12 * AspectRatio(width, height)[2]

\* range(1, total_of_pages) in place of range(1, total_of_pages + 1)
SlideLoopCondOffByOne(n, total) == n < total

\* for page_number in range(1, total_of_pages + 1)
SlideLoopCond(n, total) == n <= total

\* while page_number <= total_of_pages + 1
StdLoopCondOneMore(n, total) == n <= total + 1

\* while page_number <= total_of_pages
StdLoopCond(n, total) == n <= total

\* a scroll after every capture, the last one included
SlideNeedsAdvanceAlways(n, total) == n <= total

\* if page_number < total_of_pages: scroll_by_exact_amount(...)
SlideNeedsAdvance(n, total) == n < total

\* page_count handed to save_pdf_results by export_pdf_slide_mode
SlidePageCount(n, total) == total

\* page_count handed to save_pdf_results by export_pdf_standard_mode
StdPageCount(n, total) == n

\* for i in range(1, page_count): if os.path.exists(raw_i): copy
RawCopySet(count, raws) == {i \in 1..(count - 1) : i \in raws}

\* the indices of the frames in a frame list
FrameSet(files) == {files[i] : i \in 1..Len(files)}

\* files_list.insert(0, image_path) in place of append
AppendFrameFront(files, n) == <<n>> \o files

\* files_list.append(image_path) for the page n
AppendFrame(files, n) == Append(files, n)

\* container.scrollTop += pixels
ScrolledBy(top, pixels) == top + pixels

\* the scroll positions the viewer can be at when export_pdf is called
ScrollStarts == {0, 1}

\* <<1, 2, ..., n>>
Upto(n) == [i \in 1..n |-> i]

----------------------------------------------------------------------------
\* no composite: create_collage not called ("none") or failed ("error")
NoCollage(status) == [status |-> status, size |-> <<0, 0>>, pastes |-> <<>>]

\* a blank 1 x 1 image
BlankImage == [w |-> 1, h |-> 1, dark |-> {}]

\* the image utilities before any call
FramesIdle ==
    /\ image = BlankImage
    /\ saved = BlankImage
    /\ images = <<>>
    /\ collageOut = NoCollage("none")
    /\ framePc = "idle"

\* export_pdf before its first statement
ExportStart ==
    /\ pc = "detect"
    /\ mode = "none"
    /\ detectFound = FALSE
    /\ toolbarHidden = FALSE
    /\ canvas_height = 0
    /\ page_number = 0
    /\ files_list = <<>>
    /\ rawFiles = {}
    /\ tempDir = "none"
    /\ position = "unset"
    /\ scrollErrors = 0
    /\ scrolls = <<>>
    /\ clicks = 0
    /\ page_count = 0
    /\ saveCalled = FALSE
    /\ primary = "absent"
    /\ primaryPages = <<>>
    /\ rawDir = FALSE
    /\ rawKept = {}
    /\ imgDir = FALSE
    /\ imgKept = {}
    /\ collage = FALSE
    /\ canvasLostAt = 0
    /\ nextFailedAt = 0
    /\ ioFailure = "none"
    /\ result = "none"

Init ==
    /\ FramesIdle
    /\ args \in [keep_raw_imgs : BOOLEAN, keep_imgs : BOOLEAN,
                 create_collage : BOOLEAN]
    /\ total_of_pages \in 0..MaxPages
    /\ canvasWidth \in 0..MaxWidth
    /\ canvasHeight \in 0..MaxHeight
    /\ scrollTop \in ScrollStarts
    /\ ExportStart



\* a return that leaves the function without the block's exit handler
ReturnSkippingCleanup(r) ==
    /\ result' = r
    /\ pc' = "done"

\* `return r` (or a propagating exception) inside the
\* `with tempfile.TemporaryDirectory()` block: the value is fixed and the
\* block's exit handler runs next.
ReturnFrom(r) ==
    /\ result' = r
    /\ pc' = "exit"

\* export_pdf: is_slide_mode = detect_slide_mode(browser), then dispatch
Detect ==
    /\ pc = "detect"
    /\ \E found \in BOOLEAN :
          /\ detectFound' = found
          /\ mode' = IF detect_slide_mode(found, canvasWidth, canvasHeight)
                     THEN "slide" ELSE "standard"
    /\ pc' = "enter"
    /\ UNCHANGED <<imageVars, inputVars, browserVars, loopVars, tempDir, saveVars,
                   historyVars, result>>


\* the call save_pdf_results(args, filename, files_list, temp_dir, count)
CallSave(count) ==
    /\ pc' = "save"
    /\ page_count' = count
    /\ saveCalled' = TRUE
    /\ UNCHANGED <<primary, primaryPages, rawDir, rawKept, imgDir, imgKept,
                   collage, ioFailure, result>>

\* the next iteration of the for loop of export_pdf_slide_mode, or the call
\* of save_pdf_results when range(1, total_of_pages + 1) is exhausted
SlideLoopNext(n) ==
    IF SlideLoopCond(n, total_of_pages)
    THEN /\ page_number' = n
         /\ pc' = "capture"
         /\ UNCHANGED <<saveVars, result>>
    ELSE /\ UNCHANGED page_number
         /\ CallSave(SlidePageCount(page_number, total_of_pages))

\* the loop test of export_pdf_standard_mode with page_number = n, or the
\* call of save_pdf_results when it fails
StdLoopNext(n) ==
    /\ page_number' = n
    /\ IF StdLoopCond(n, total_of_pages)
       THEN /\ pc' = "capture"
            /\ UNCHANGED <<saveVars, result>>
       ELSE CallSave(StdPageCount(n, total_of_pages))

\* export_pdf_slide_mode: files_list = [], enter the with block, hide_toolbar
EnterSlide ==
    /\ pc = "enter"
    /\ mode = "slide"
    /\ tempDir' = "live"
    /\ \E hidden \in BOOLEAN : toolbarHidden' = hidden
    /\ pc' = "scroll_top"
    /\ UNCHANGED <<imageVars, inputVars, mode, detectFound, canvas_height, position,
                   scrollVars, scrolls, clicks, loopVars, saveVars,
                   historyVars, result>>

\* scroll_to_page_top: container.scrollTop = 0; best effort, an exception
\* of the script is logged and dropped
ScrollTop ==
    /\ pc = "scroll_top"
    /\ \E ok \in BOOLEAN :
          IF ok
          THEN scrollTop' = 0 /\ UNCHANGED scrollErrors
          ELSE scrollErrors' = scrollErrors + 1 /\ UNCHANGED scrollTop
    /\ pc' = "get_position"
    /\ UNCHANGED <<imageVars, inputVars, mode, detectFound, toolbarHidden,
                   canvas_height, position, scrolls, clicks, loopVars,
                   tempDir, saveVars, historyVars, result>>

\* no return after the error log: the loop starts without a geometry
PositionMissingContinues ==
    /\ SlideLoopNext(1)
    /\ UNCHANGED canvas_height

\* if not position: logging.error(...); return False
PositionMissing ==
    /\ ReturnFrom("false")
    /\ UNCHANGED <<canvas_height, page_number, saveVars>>

\* position = get_canvas_position(browser); canvas_height =
\* position['canvasHeight'], then the first iteration of the loop
GetPosition ==
    /\ pc = "get_position"
    /\ \E got \in BOOLEAN :
          IF got
          THEN /\ position' = "got"
               /\ canvas_height' = canvasHeight
               /\ SlideLoopNext(1)
          ELSE /\ position' = "none"
               /\ PositionMissing
    /\ UNCHANGED <<imageVars, inputVars, mode, detectFound, toolbarHidden, scrollVars,
                   scrolls, clicks, files_list, rawFiles, tempDir,
                   historyVars>>

\* break in place of return False: the frames so far go to assembly
SlideCanvasMissingSaves ==
    /\ UNCHANGED page_number
    /\ CallSave(SlidePageCount(page_number, total_of_pages))

\* except NoSuchElementException: return False   (slide mode)
SlideCanvasMissing ==
    /\ ReturnFrom("false")
    /\ UNCHANGED <<page_number, saveVars>>

\* one iteration of the for loop up to the scroll
SlideCapture ==
    /\ pc = "capture"
    /\ mode = "slide"
    /\ \E found \in BOOLEAN :
          IF found
          THEN /\ rawFiles' = rawFiles \cup {page_number}
               /\ files_list' = AppendFrame(files_list, page_number)
               /\ UNCHANGED canvasLostAt
               /\ IF SlideNeedsAdvance(page_number, total_of_pages)
                  THEN /\ pc' = "advance"
                       /\ UNCHANGED <<page_number, saveVars, result>>
                  ELSE SlideLoopNext(page_number + 1)
          ELSE /\ canvasLostAt' = page_number
               /\ SlideCanvasMissing
               /\ UNCHANGED <<rawFiles, files_list>>
    /\ UNCHANGED <<imageVars, inputVars, mode, detectFound, browserVars, tempDir,
                   nextFailedAt>>

\* a scroll error that ends the run instead of being logged
SlideAfterScrollStrict(ok) ==
    IF ok
    THEN SlideLoopNext(page_number + 1)
    ELSE ReturnFrom("false") /\ UNCHANGED <<page_number, saveVars>>

\* after scroll_by_exact_amount returns (it swallows its exception) the
\* for loop goes on with the next page
SlideAfterScroll(ok) == SlideLoopNext(page_number + 1)

\* scroll_by_exact_amount(browser, canvas_height): best effort
SlideAdvance ==
    /\ pc = "advance"
    /\ mode = "slide"
    /\ scrolls' = Append(scrolls, canvas_height)
    /\ \E ok \in BOOLEAN :
          /\ IF ok
             THEN /\ scrollTop' = ScrolledBy(scrollTop, canvas_height)
                  /\ UNCHANGED scrollErrors
             ELSE /\ scrollErrors' = scrollErrors + 1
                  /\ UNCHANGED scrollTop
          /\ SlideAfterScroll(ok)
    /\ UNCHANGED <<imageVars, inputVars, mode, detectFound, toolbarHidden,
                   canvas_height, position, clicks, files_list, rawFiles,
                   tempDir, historyVars>>

\* export_pdf_standard_mode: files_list = [], enter the with block,
\* hide_toolbar, page_number = 1
EnterStd ==
    /\ pc = "enter"
    /\ mode = "standard"
    /\ tempDir' = "live"
    /\ \E hidden \in BOOLEAN : toolbarHidden' = hidden
    /\ StdLoopNext(1)
    /\ UNCHANGED <<imageVars, inputVars, mode, detectFound, canvas_height, position,
                   scrollVars, scrolls, clicks, files_list, rawFiles,
                   historyVars>>

\* break in place of return False: the frames so far go to assembly
StdCanvasMissingBreaks ==
    /\ UNCHANGED page_number
    /\ CallSave(StdPageCount(page_number, total_of_pages))

\* except NoSuchElementException: return False   (standard mode)
StdCanvasMissing ==
    /\ ReturnFrom("false")
    /\ UNCHANGED <<page_number, saveVars>>

\* the navigation attempted after every capture, the last one included
StdNeedsAdvanceAlways(n, total) == n <= total + 1

\* if page_number <= total_of_pages (after page_number += 1)
StdNeedsAdvance(n, total) == n <= total

\* one iteration of the while loop up to the navigation
StdCapture ==
    /\ pc = "capture"
    /\ mode = "standard"
    /\ \E found \in BOOLEAN :
          IF found
          THEN /\ rawFiles' = rawFiles \cup {page_number}
               /\ files_list' = AppendFrame(files_list, page_number)
               /\ UNCHANGED canvasLostAt
               /\ IF StdNeedsAdvance(page_number + 1, total_of_pages)
                  THEN /\ page_number' = page_number + 1
                       /\ pc' = "advance"
                       /\ UNCHANGED <<saveVars, result>>
                  ELSE StdLoopNext(page_number + 1)
          ELSE /\ canvasLostAt' = page_number
               /\ StdCanvasMissing
               /\ UNCHANGED <<rawFiles, files_list>>
    /\ UNCHANGED <<imageVars, inputVars, mode, detectFound, browserVars, tempDir,
                   nextFailedAt>>

\* except (NoSuchElementException, JavascriptException): break
StdNextFailed ==
    /\ UNCHANGED page_number
    /\ CallSave(StdPageCount(page_number, total_of_pages))

\* find the next-page control, scroll it into view, click it
StdAdvance ==
    /\ pc = "advance"
    /\ mode = "standard"
    /\ \E ok \in BOOLEAN :
          IF ok
          THEN /\ clicks' = clicks + 1
               /\ StdLoopNext(page_number)
               /\ UNCHANGED nextFailedAt
          ELSE /\ nextFailedAt' = page_number - 1
               /\ StdNextFailed
               /\ UNCHANGED clicks
    /\ UNCHANGED <<imageVars, inputVars, mode, detectFound, toolbarHidden,
                   canvas_height, position, scrollVars, scrolls, files_list,
                   rawFiles, tempDir, canvasLostAt>>

----------------------------------------------------------------------------
\* save_pdf_results

\* if args.keep_raw_imgs
WantsRaw(a) == a.keep_raw_imgs

\* the cropped-image copy guarded by the raw-image flag
WantsImgsByRawFlag(a) == a.keep_raw_imgs

\* if args.keep_imgs
WantsImgs(a) == a.keep_imgs

\* if args.create_collage
WantsCollage(a) == a.create_collage

\* except IOError as e: return False
SaveIOError(step) ==
    /\ ioFailure' = step
    /\ ReturnFrom("false")

\* with open(filename, "wb") as out_file: creates or truncates the file
SaveOpen ==
    /\ pc = "save"
    /\ \E ok \in BOOLEAN :
          IF ok
          THEN /\ primary' = "opened"
               /\ pc' = "save_write"
               /\ UNCHANGED <<ioFailure, result>>
          ELSE /\ SaveIOError("open")
               /\ UNCHANGED primary
    /\ UNCHANGED <<imageVars, inputVars, mode, detectFound, browserVars, loopVars,
                   tempDir, page_count, saveCalled, primaryPages, rawDir,
                   rawKept, imgDir, imgKept, collage, historyVars>>

\* the document converted but written only after the side-artifact steps
SaveWriteDeferred ==
    /\ pc = "save_write"
    /\ pc' = "save_raw"
    /\ UNCHANGED <<imageVars, inputVars, mode, detectFound, browserVars, loopVars,
                   tempDir, saveVars, historyVars, result>>

\* out_file.write(img2pdf.convert(files_list)).  img2pdf is a library: on
\* an empty list it either raises (not an IOError, so the exception leaves
\* save_pdf_results) or yields a document without pages.
SaveWrite ==
    /\ pc = "save_write"
    /\ \E ok \in BOOLEAN :
          IF ok
          THEN /\ primary' = "written"
               /\ primaryPages' = files_list
               /\ pc' = "save_raw"
               /\ UNCHANGED <<ioFailure, result>>
          ELSE /\ IF files_list = <<>>
                  THEN ReturnFrom("raised") /\ UNCHANGED ioFailure
                  ELSE SaveIOError("write")
               /\ UNCHANGED <<primary, primaryPages>>
    /\ UNCHANGED <<imageVars, inputVars, mode, detectFound, browserVars, loopVars,
                   tempDir, page_count, saveCalled, rawDir, rawKept, imgDir,
                   imgKept, collage, historyVars>>

\* os.makedirs(raw_keep_dir); copy raw_i.png for i in range(1, page_count)
SaveRaw ==
    /\ pc = "save_raw"
    /\ IF WantsRaw(args)
       THEN \/ /\ rawDir' = TRUE
               /\ rawKept' = RawCopySet(page_count, rawFiles)
               /\ pc' = "save_imgs"
               /\ UNCHANGED <<ioFailure, result>>
            \/ /\ SaveIOError("raw")
               /\ UNCHANGED <<rawDir, rawKept>>
            \/ \E j \in RawCopySet(page_count, rawFiles) :
                  /\ rawDir' = TRUE
                  /\ rawKept' = {i \in RawCopySet(page_count, rawFiles) :
                                   i < j}
                  /\ SaveIOError("raw")
       ELSE /\ pc' = "save_imgs"
            /\ UNCHANGED <<rawDir, rawKept, ioFailure, result>>
    /\ UNCHANGED <<imageVars, inputVars, mode, detectFound, browserVars, loopVars,
                   tempDir, page_count, saveCalled, primary, primaryPages,
                   imgDir, imgKept, collage, historyVars>>

\* os.makedirs(keep_dir); copy every file of files_list
SaveImgs ==
    /\ pc = "save_imgs"
    /\ IF WantsImgs(args)
       THEN \/ /\ imgDir' = TRUE
               /\ imgKept' = FrameSet(files_list)
               /\ pc' = "save_collage"
               /\ UNCHANGED <<ioFailure, result>>
            \/ /\ SaveIOError("imgs")
               /\ UNCHANGED <<imgDir, imgKept>>
            \/ \E j \in 1..Len(files_list) :
                  /\ imgDir' = TRUE
                  /\ imgKept' = {files_list[i] : i \in 1..(j - 1)}
                  /\ SaveIOError("imgs")
       ELSE /\ pc' = "save_collage"
            /\ UNCHANGED <<imgDir, imgKept, ioFailure, result>>
    /\ UNCHANGED <<imageVars, inputVars, mode, detectFound, browserVars, loopVars,
                   tempDir, page_count, saveCalled, primary, primaryPages,
                   rawDir, rawKept, collage, historyVars>>

\* create_collage(files_list, collage_path), then return True.  On an empty
\* list create_collage raises ValueError (zip(*()) cannot be unpacked),
\* which is not an IOError.
SaveCollage ==
    /\ pc = "save_collage"
    /\ IF WantsCollage(args)
       THEN IF files_list = <<>>
            THEN ReturnFrom("raised") /\ UNCHANGED <<collage, ioFailure>>
            ELSE \/ /\ collage' = TRUE
                    /\ ReturnFrom("true")
                    /\ UNCHANGED ioFailure
                 \/ /\ SaveIOError("collage")
                    /\ UNCHANGED collage
       ELSE /\ ReturnFrom("true")
            /\ UNCHANGED <<collage, ioFailure>>
    /\ UNCHANGED <<imageVars, inputVars, mode, detectFound, browserVars, loopVars,
                   tempDir, page_count, saveCalled, primary, primaryPages,
                   rawDir, rawKept, imgDir, imgKept, historyVars>>

\* leaving the with block: TemporaryDirectory.cleanup() deletes temp_dir
\* and the files in it, then the value reaches the caller of export_pdf
ExitScope ==
    /\ pc = "exit"
    /\ tempDir' = "removed"
    /\ rawFiles' = {}
    /\ pc' = "done"
    /\ UNCHANGED <<imageVars, inputVars, mode, detectFound, browserVars, page_number,
                   files_list, saveVars, historyVars, result>>

Next ==
    \/ Detect
    \/ EnterSlide
    \/ ScrollTop
    \/ GetPosition
    \/ SlideCapture
    \/ SlideAdvance
    \/ EnterStd
    \/ StdCapture
    \/ StdAdvance
    \/ SaveOpen
    \/ SaveWrite
    \/ SaveRaw
    \/ SaveImgs
    \/ SaveCollage
    \/ ExitScope

Spec == Init /\ [][Next]_vars

\* export_pdf runs on one thread that is never suspended for ever: while a
\* step is possible, a step is taken
FairSpec == Spec /\ WF_vars(Next)

TypeOK ==
    /\ pc \in {"detect", "enter", "scroll_top", "get_position", "capture",
               "advance", "save", "save_write", "save_raw", "save_imgs",
               "save_collage", "exit", "done"}
    /\ mode \in {"none", "slide", "standard"}
    /\ tempDir \in {"none", "live", "removed"}
    /\ primary \in {"absent", "opened", "written"}
    /\ result \in {"none", "true", "false", "raised"}
    /\ page_number \in 0..(MaxPages + 1)
    /\ Len(files_list) <= MaxPages

----------------------------------------------------------------------------
\* utils/image_utils.py.  An image is its size and the set of its non-white
\* pixels (luminance 0); every other pixel is white (luminance 255).
\* Coordinates are PIL's: x in 0..w-1 left to right, y in 0..h-1 downwards.

\* Largest side of an image given to crop_image
MaxImageSide == 5
\* Largest number of non-white pixels drawn in an image given to crop_image
MaxDark == 2
\* Largest number of images given to create_collage, and their largest side
MaxImages == 3
MaxCollageSide == 3

\* no bounding box (PIL's None)
None == <<>>

Grid(w, h) == (0..(w - 1)) \X (0..(h - 1))

SetMin(S) == CHOOSE m \in S : \A e \in S : m <= e
SetMax(S) == CHOOSE m \in S : \A e \in S : m >= e

\* Image.open(image_path).convert('L'): the luminance of a pixel
Luminance(img, x, y) == IF <<x, y>> \in img.dark THEN 0 ELSE 255

\* ImageOps.invert(image)
Inverted(img, x, y) == 255 - Luminance(img, x, y)

\* inverted_image.getbbox(): the bounding box (left, upper, right, lower) of
\* the non-zero pixels, right and lower exclusive, or None
getbbox(img) ==
    LET nz == {p \in Grid(img.w, img.h) : Inverted(img, p[1], p[2]) # 0}
    IN IF nz = {} THEN None
       ELSE <<SetMin({p[1] : p \in nz}), SetMin({p[2] : p \in nz}),
              SetMax({p[1] : p \in nz}) + 1, SetMax({p[2] : p \in nz}) + 1>>

\* the margin box cut off at the image edges
MarginBoxClamped(img, bbox) ==
    <<IF bbox[1] - 2 < 0 THEN 0 ELSE bbox[1] - 2,
      IF bbox[2] - 2 < 0 THEN 0 ELSE bbox[2] - 2,
      IF bbox[3] + 2 > img.w THEN img.w ELSE bbox[3] + 2,
      IF bbox[4] + 2 > img.h THEN img.h ELSE bbox[4] + 2>>

\* (bbox[0] - 2, bbox[1] - 2, bbox[2] + 2, bbox[3] + 2)
MarginBox(img, bbox) ==
    <<bbox[1] - 2, bbox[2] - 2, bbox[3] + 2, bbox[4] + 2>>

\* image.crop(box): an image of the size of the box; PIL fills the part of
\* the box outside the image with 0
Crop(img, box) ==
    LET cw == box[3] - box[1]
        ch == box[4] - box[2]
    IN [w |-> cw, h |-> ch,
        dark |-> {p \in Grid(cw, ch) :
                    LET sx == p[1] + box[1]
                        sy == p[2] + box[2]
                    IN IF sx \in 0..(img.w - 1) /\ sy \in 0..(img.h - 1)
                       THEN Luminance(img, sx, sy) = 0
                       ELSE TRUE}]

\* crop_image: the file at image_path afterwards; an image that cannot be
\* processed (readable = FALSE) raises inside the try and is left alone
crop_image(img, readable) ==
    IF ~readable THEN img
    ELSE LET bbox == getbbox(img)
         IN IF bbox = None THEN img
            ELSE Crop(img, MarginBox(img, bbox))

\* the images with at most MaxDark non-white pixels
DarkSets(w, h) ==
    {{}} \cup {{f[i] : i \in 1..MaxDark} : f \in [1..MaxDark -> Grid(w, h)]}

InitCrop ==
    /\ \E w \in 1..MaxImageSide, h \in 1..MaxImageSide :
          \E dk \in DarkSets(w, h) : image = [w |-> w, h |-> h, dark |-> dk]
    /\ saved = image
    /\ images = <<>>
    /\ collageOut = NoCollage("none")
    /\ framePc = "crop"
    /\ args = [keep_raw_imgs |-> FALSE, keep_imgs |-> FALSE,
               create_collage |-> FALSE]
    /\ total_of_pages = 0
    /\ canvasWidth = 0
    /\ canvasHeight = 0
    /\ scrollTop = 0
    /\ ExportStart

\* crop_image(image_path), as called after each capture
CropImage ==
    /\ framePc = "crop"
    /\ \E readable \in BOOLEAN : saved' = crop_image(image, readable)
    /\ framePc' = "cropped"
    /\ UNCHANGED <<exportVars, image, images, collageOut>>

NextCrop == CropImage

CropSpec == InitCrop /\ [][NextCrop]_vars

\* the width of the first image in place of the largest
first_width(widths) == widths[1]

\* max(widths)
max_width(widths) == SetMax({widths[i] : i \in 1..Len(widths)})

RECURSIVE sum(_)
\* sum(heights)
sum(heights) ==
    IF heights = <<>> THEN 0 ELSE Head(heights) + sum(Tail(heights))

RECURSIVE PasteLoop(_, _, _)
\* for image in images: collage.paste(image, (0, y_offset));
\*                       y_offset += image.size[1]
PasteLoop(sizes, i, y_offset) ==
    IF i > Len(sizes) THEN <<>>
    ELSE <<<<0, y_offset>>>> \o PasteLoop(sizes, i + 1, y_offset + sizes[i][2])

\* create_collage: widths, heights = zip(*sizes) raises ValueError on an
\* empty list; otherwise the composite's size and the paste positions
create_collage(sizes) ==
    IF sizes = <<>> THEN NoCollage("error")
    ELSE LET widths == [i \in 1..Len(sizes) |-> sizes[i][1]]
             heights == [i \in 1..Len(sizes) |-> sizes[i][2]]
         IN [status |-> "ok",
             size |-> <<max_width(widths), sum(heights)>>,
             pastes |-> PasteLoop(sizes, 1, 0)]

CollageSizes == (1..MaxCollageSide) \X (1..MaxCollageSide)

InitCollage ==
    /\ \E n \in 0..MaxImages : images \in [1..n -> CollageSizes]
    /\ collageOut = NoCollage("none")
    /\ framePc = "collage"
    /\ image = BlankImage
    /\ saved = BlankImage
    /\ args = [keep_raw_imgs |-> FALSE, keep_imgs |-> FALSE,
               create_collage |-> TRUE]
    /\ total_of_pages = 0
    /\ canvasWidth = 0
    /\ canvasHeight = 0
    /\ scrollTop = 0
    /\ ExportStart

\* create_collage(image_paths, output_path)
ComposeCollage ==
    /\ framePc = "collage"
    /\ collageOut' = create_collage(images)
    /\ framePc' = "composed"
    /\ UNCHANGED <<exportVars, image, saved, images>>

NextCollage == ComposeCollage

CollageSpec == InitCollage /\ [][NextCollage]_vars

----------------------------------------------------------------------------
\* Properties

SaveSteps == {"save", "save_write", "save_raw", "save_imgs", "save_collage"}

\* C1: with total_of_pages = N >= 1, in either strategy, a traversal in
\* which every canvas lookup and every advance succeeds hands
\* save_pdf_results the frame list <<1, 2, ..., N>>.
C1_FullTraversalFrames ==
    (saveCalled /\ total_of_pages >= 1 /\ canvasLostAt = 0
        /\ nextFailedAt = 0)
    => files_list = Upto(total_of_pages)

C1_Witness ==
    /\ pc = "save"
    /\ mode = "slide"
    /\ total_of_pages = MaxPages
    /\ files_list = Upto(MaxPages)

\* C2: in paged mode, when the next-page control fails right after page k
\* (k < N) and the destination file could be written, assembly received
\* exactly the frames 1..k and the run returns success.
C2_NextFailureSucceeds ==
    (pc = "done" /\ mode = "standard" /\ nextFailedAt > 0
        /\ primary = "written")
    => /\ nextFailedAt < total_of_pages
       /\ primaryPages = Upto(nextFailedAt)
       /\ result = "true"

\* C3: in continuous mode, when the canvas cannot be located at page n, the
\* run returns failure, save_pdf_results is never entered and the
\* destination file is not touched, however many pages were captured.
C3_SlideCanvasLossFails ==
    (mode = "slide" /\ canvasLostAt > 0)
    => /\ canvasLostAt \in 1..total_of_pages
       /\ files_list = Upto(canvasLostAt - 1)
       /\ result = "false"
       /\ ~saveCalled
       /\ primary = "absent"

C3_Witness ==
    /\ pc = "done"
    /\ mode = "slide"
    /\ canvasLostAt >= 2
    /\ result = "false"

C5_FailureLeavesNoArtifact ==
    (pc = "done" /\ result = "false") => primary = "absent"

\* C6: the destination file is opened or written only with a frame list of
\* at least one entry, and a run that captured no page returns failure.
C6_NeverSavesEmpty ==
    /\ primary # "absent" => Len(files_list) >= 1
    /\ (pc = "done" /\ files_list = <<>>) => result = "false"

\* C7: the temporary workspace is removed on every exit path, it is live
\* throughout save_pdf_results, and no side-artifact is created or extended
\* once it has been removed.
C7_WorkspaceScoped ==
    /\ [](/\ pc = "done" => tempDir = "removed"
          /\ tempDir = "removed" => pc = "done"
          /\ pc \in SaveSteps => tempDir = "live")
    /\ [][(rawDir' # rawDir \/ rawKept' # rawKept \/ imgDir' # imgDir
              \/ imgKept' # imgKept \/ collage' # collage)
          => (tempDir = "live" /\ tempDir' = "live")]_vars

C7_Witness ==
    /\ pc = "done"
    /\ tempDir = "removed"
    /\ result = "true"
    /\ rawDir /\ imgDir /\ collage
    /\ nextFailedAt > 0

\* C8: when keep_raw_imgs is set and the run succeeds, the raw-images
\* directory holds raw_1..raw_m for the m captured pages.
C8_RawDirHasEveryCapturedPage ==
    (pc = "done" /\ result = "true" /\ args.keep_raw_imgs)
    => (rawDir /\ rawKept = FrameSet(files_list))

\* C9: export_pdf takes the slide strategy exactly when the canvas was
\* found, its height is > 0 and width / height > 1.2 (5 * width > 6 *
\* height); otherwise it takes the paged strategy, and detection never ends
\* the run.
C9_ClassifyByAspectRatio ==
    mode # "none"
    => /\ mode = "slide" <=> (/\ detectFound
                              /\ canvasHeight > 0
                              /\ 5 * canvasWidth > 6 * canvasHeight)
       /\ mode \in {"slide", "standard"}
       /\ pc = "enter" => result = "none"

C9_Witness ==
    /\ pc = "enter"
    /\ mode = "standard"
    /\ detectFound
    /\ canvasWidth = 6
    /\ canvasHeight = 5

\* C10: each side-artifact exists only if its own flag is set, and with all
\* three flags false a successful run leaves the primary artifact and
\* nothing else.
C10_SideArtifactsOnlyIfRequested ==
    /\ (rawDir \/ rawKept # {}) => args.keep_raw_imgs
    /\ (imgDir \/ imgKept # {}) => args.keep_imgs
    /\ collage => args.create_collage
    /\ (pc = "done" /\ result = "true" /\ ~args.keep_raw_imgs
           /\ ~args.keep_imgs /\ ~args.create_collage)
       => (primary = "written" /\ ~rawDir /\ ~imgDir /\ ~collage)

C10_Witness ==
    /\ pc = "done"
    /\ result = "true"
    /\ args.keep_raw_imgs /\ ~args.keep_imgs /\ ~args.create_collage
    /\ rawDir /\ ~imgDir /\ ~collage
    /\ primary = "written"

\* the advances attempted so far: scrolls issued, next-page activations,
\* and the failed lookup or activation of the next-page control
AdvancesAttempted ==
    Len(scrolls) + clicks + (IF nextFailedAt > 0 THEN 1 ELSE 0)

\* the captures attempted so far: frames appended and the failed lookup
CapturesAttempted ==
    Len(files_list) + (IF canvasLostAt > 0 THEN 1 ELSE 0)

\* C11: in a continuous-mode traversal of N >= 1 pages every scroll advance
\* is by the canvas height measured once before the loop, the n-th advance
\* comes after the capture of page n, no advance follows the capture of
\* page N, and a completed traversal has issued exactly N - 1 advances.
C11_SlideAdvances ==
    (mode = "slide" /\ position = "got" /\ total_of_pages >= 1)
    => /\ canvas_height = canvasHeight
       /\ \A i \in 1..Len(scrolls) : scrolls[i] = canvas_height
       /\ Len(scrolls) <= Len(files_list)
       /\ pc = "capture" => Len(scrolls) = Len(files_list)
       /\ pc = "advance" => Len(scrolls) = Len(files_list) - 1
       /\ Len(files_list) = total_of_pages
             => Len(scrolls) = total_of_pages - 1
       /\ saveCalled => Len(scrolls) = total_of_pages - 1

C11_Witness ==
    /\ pc = "done"
    /\ mode = "slide"
    /\ result = "true"
    /\ total_of_pages = MaxPages
    /\ Len(scrolls) = MaxPages - 1
    /\ canvas_height >= 1

\* C12: no side-artifact step starts, and no side-artifact exists, before
\* the destination holds the complete document, and once written the
\* destination is never modified again.
C12_PrimaryBeforeSideArtifacts ==
    /\ []((\/ pc \in {"save_raw", "save_imgs", "save_collage"}
           \/ rawDir \/ imgDir \/ collage
           \/ ioFailure \in {"raw", "imgs", "collage"})
          => (primary = "written" /\ primaryPages = files_list))
    /\ [][primary = "written"
          => (primary' = primary /\ primaryPages' = primaryPages)]_vars

C12_Witness ==
    /\ pc = "save_collage"
    /\ rawDir /\ imgDir
    /\ primary = "written"
    /\ Len(primaryPages) >= 2

\* C13: when the primary artifact was written, a failing side-artifact step
\* neither prevents the other requested side-artifact steps nor turns the
\* run into a failure.
C13_SideArtifactsIndependent ==
    (pc = "done" /\ primary = "written" /\ files_list # <<>>)
    => /\ result = "true"
       /\ (args.keep_raw_imgs /\ ioFailure # "raw") => rawDir
       /\ (args.keep_imgs /\ ioFailure # "imgs")
             => imgKept = FrameSet(files_list)
       /\ (args.create_collage /\ ioFailure # "collage") => collage

\* C14: in continuous mode, when get_canvas_position yields nothing, the
\* run returns failure with no capture taken, no scroll advance issued and
\* no primary or side artifact written.
C14_NoGeometryAborts ==
    (mode = "slide" /\ position = "none")
    => /\ pc \in {"exit", "done"}
       /\ result = "false"
       /\ files_list = <<>> /\ rawFiles = {} /\ canvasLostAt = 0
       /\ scrolls = <<>>
       /\ ~saveCalled
       /\ primary = "absent"
       /\ ~rawDir /\ ~imgDir /\ ~collage

C14_Witness ==
    /\ pc = "done"
    /\ mode = "slide"
    /\ position = "none"
    /\ total_of_pages >= 1
    /\ result = "false"

\* C15: in either strategy the frame list is always <<1, ..., m>>, every
\* frame has its raw capture in the workspace while the workspace lives,
\* and the list changes only by appending the next index m + 1, whose raw
\* capture has then been taken.
C15_FramesArePrefix ==
    /\ [](/\ files_list = Upto(Len(files_list))
          /\ tempDir = "live" => FrameSet(files_list) \subseteq rawFiles)
    /\ [][\/ files_list' = files_list
          \/ /\ files_list' = Append(files_list, Len(files_list) + 1)
             /\ (Len(files_list) + 1) \in rawFiles']_vars

C15_Witness ==
    /\ pc = "advance"
    /\ mode = "standard"
    /\ files_list = <<1, 2>>
    /\ rawFiles = {1, 2}

\* C16: in paged mode the next-page control is tried only after the capture
\* of a page n < total_of_pages, once between the captures of n and n + 1,
\* and never after the capture of the last page.
C16_NextOnlyBetweenPages ==
    mode = "standard"
    => /\ pc = "capture" => (/\ clicks = Len(files_list)
                            /\ page_number = Len(files_list) + 1
                            /\ nextFailedAt = 0)
       /\ pc = "advance" => (/\ clicks = Len(files_list) - 1
                            /\ Len(files_list) < total_of_pages
                            /\ nextFailedAt = 0)
       /\ nextFailedAt > 0 => (/\ nextFailedAt = Len(files_list)
                              /\ nextFailedAt < total_of_pages
                              /\ clicks = nextFailedAt - 1)
       /\ clicks <= Len(files_list)
       /\ Len(files_list) = total_of_pages
             => (pc # "advance" /\ nextFailedAt = 0
                 /\ (total_of_pages >= 1 => clicks = total_of_pages - 1))

C16_Witness ==
    /\ pc = "done"
    /\ mode = "standard"
    /\ total_of_pages = MaxPages
    /\ clicks = MaxPages - 1
    /\ files_list = Upto(MaxPages)

\* C17: the best-effort steps (hide_toolbar, scroll_to_page_top, the scroll
\* advance of continuous mode) lead to the same next step with the same
\* frames and result whether they succeed or fail, and a failure result is
\* always due to a missing geometry, a missing canvas or an I/O error.
C17_BestEffortSteps ==
    /\ [](result = "false"
          => (position = "none" \/ canvasLostAt > 0 \/ ioFailure # "none"))
    /\ [][/\ pc = "enter"
             => (/\ result' = result /\ files_list' = files_list
                 /\ pc' = IF mode = "slide" THEN "scroll_top"
                          ELSE IF total_of_pages >= 1 THEN "capture"
                          ELSE "save")
          /\ pc = "scroll_top"
             => (/\ result' = result /\ files_list' = files_list
                 /\ pc' = "get_position")
          /\ (pc = "advance" /\ mode = "slide")
             => (/\ result' = result /\ files_list' = files_list
                 /\ rawFiles' = rawFiles
                 /\ pc' = "capture"
                 /\ page_number' = page_number + 1)]_vars

C17_Witness ==
    /\ pc = "done"
    /\ mode = "slide"
    /\ ~toolbarHidden
    /\ scrollErrors = MaxPages
    /\ files_list = Upto(MaxPages)
    /\ result = "true"

\* C18: crop_image leaves a blank image unchanged and otherwise saves a crop
\* whose box is the bounding box of the non-white content widened by 2
\* pixels and cut off at the image edges, so that the saved image is never
\* larger than the input.
C18_CropWithinImage ==
    framePc = "cropped"
    => /\ getbbox(image) = None => saved = image
       /\ saved.w <= image.w /\ saved.h <= image.h
       /\ getbbox(image) # None
          => \/ saved = image
             \/ saved = Crop(image,
                             MarginBoxClamped(image, getbbox(image)))

\* C19: on a non-empty list create_collage yields a composite as wide as
\* the widest image and as high as all images together, the first image
\* pasted at (0, 0) and each next one directly below its predecessor; on an
\* empty list it fails.
C19_CollageGeometry ==
    framePc = "composed"
    => IF images = <<>> THEN collageOut.status = "error"
       ELSE /\ collageOut.status = "ok"
            /\ \A i \in 1..Len(images) : collageOut.size[1] >= images[i][1]
            /\ \E i \in 1..Len(images) : collageOut.size[1] = images[i][1]
            /\ Len(collageOut.pastes) = Len(images)
            /\ collageOut.pastes[1] = <<0, 0>>
            /\ \A i \in 1..(Len(images) - 1) :
                  collageOut.pastes[i + 1]
                     = <<0, collageOut.pastes[i][2] + images[i][2]>>
            /\ collageOut.size[2]
                  = collageOut.pastes[Len(images)][2]
                       + images[Len(images)][2]

C19_Witness ==
    /\ framePc = "composed"
    /\ images = <<<<2, 1>>, <<3, 2>>, <<1, 3>>>>
    /\ collageOut.size = <<3, 6>>
    /\ collageOut.pastes = <<<<0, 0>>, <<0, 1>>, <<0, 3>>>>

\* C20: every run of export_pdf returns; it attempts at most N captures and
\* at most N - 1 advances (none when N = 0), the strategy is fixed by the
\* detection before the first capture and never changes afterwards, and the
\* page about to be captured has never been captured before.
C20_Terminates ==
    /\ <>(pc = "done")
    /\ [](/\ CapturesAttempted <= total_of_pages
          /\ AdvancesAttempted = 0 \/ AdvancesAttempted <= total_of_pages - 1
          /\ mode = "none" => (pc = "detect" /\ CapturesAttempted = 0)
          /\ pc = "capture" => (/\ page_number = Len(files_list) + 1
                               /\ page_number \notin rawFiles)
          /\ \A i, j \in 1..Len(files_list) :
                files_list[i] = files_list[j] => i = j)
    /\ [][/\ mode # "none" => mode' = mode
          /\ pc = "done" => pc' = "done"]_vars

C20_Witness ==
    /\ pc = "done"
    /\ total_of_pages = MaxPages
    /\ CapturesAttempted = MaxPages
    /\ AdvancesAttempted = MaxPages - 1
    /\ canvasLostAt = MaxPages

====
